---------------------------- MODULE Spec2Model ----------------------------
(***************************************************************************)
(* A model of exceptiongroup/_exception_group.py: the metaclass            *)
(* ExceptionGroupMeta (specialization by subscription, the cache of        *)
(* specializations, the subclass check used by `except`) and the class     *)
(* ExceptionGroup (construction, validation, copy).                        *)
(*                                                                         *)
(* Class objects of the ExceptionGroup family live in a heap `classes`,    *)
(* keyed by object identity.  Plain exception types (KeyError, ...) are    *)
(* strings; their nominal hierarchy is Python's.                           *)
(***************************************************************************)
EXTENDS Integers, Sequences, FiniteSets, TLC

\* ------------------------------------------------------------- bounds
\* specialized classes that may be alive at once
MaxShapes == 2
\* longest tuple used in a subscription Cls[a, b, ...]
MaxItems == 2
\* longest `exceptions` / `sources` argument of a construction
MaxExceptions == 2

\* ------------------------------------------------- plain Python values
\* the attribute value None of `specializations` (a set, to compare with sets)
None == {"None"}
\* the constant Ellipsis, written `...`
Ellipsis == "..."

\* the direct base of each plain type used by the model (Python builtins)
Parent(k) ==
    CASE k = "KeyError" -> "LookupError"
      [] k = "LookupError" -> "Exception"
      [] k = "RuntimeError" -> "Exception"
      [] k = "Exception" -> "BaseException"
      [] OTHER -> "object"

RECURSIVE Mro(_)
\* the type and all its bases
Mro(k) == IF k = "object" THEN {"object"} ELSE {k} \cup Mro(Parent(k))

\* issubclass(a, b) for plain types a and b
issubclass(a, b) == b \in Mro(a)

\* issubclass(a, bs) for a tuple of types bs (given as a set): any of them
issubclass_any(a, bs) == \E b \in bs : issubclass(a, b)

\* the exception types a subscription may name
ErrKinds == {"LookupError", "KeyError", "RuntimeError"}
\* what may appear as one element of a subscription: a type or `...`
ItemElems == ErrKinds \cup {Ellipsis, "str"}

\* ------------------------------------------------------ object identity
\* The code compares class objects with `is` only, so an object may be named
\* by anything that tells two live objects apart.  A specialized class is
\* named by the frozenset it was built for and a serial number n: the n-th
\* live class built for that frozenset.  The declared classes are named by
\* their own names.
Object(spec, n) == [spec |-> spec, n |-> n]
\* the class ExceptionGroup itself
ExceptionGroup == Object({"ExceptionGroup"}, 0)
\* class SubGroup(ExceptionGroup): pass  -- a second, unspecialized root
SubGroup == Object({"SubGroup"}, 0)
\* a type object outside the family (BaseException): it has no base_case
PlainType == Object({"BaseException"}, 0)
\* no object
NoId == Object({"no object"}, 0)

VARIABLES
    classes,    \* heap: identity -> [bases, base_case, specializations, inclusive]
    cache,      \* ExceptionGroup._specs_cache: frozenset(item) -> identity
    held,       \* classes a subscription returned that the caller still references
    group,      \* <<>> or <<g>>: the ExceptionGroup instance the program holds
    last,       \* the call the program just made and its outcome
    pc,         \* per thread: position inside _get_specialization
    local       \* per thread: cls, unique_spec, specialized_cls

vars == <<classes, cache, held, group, last, pc, local>>

\* an outcome: a returned value or a raised exception
Ret(v) == [raised |-> FALSE, exc |-> "None", value |-> v]
Raise(e, line) == [raised |-> TRUE, exc |-> e, line |-> line]

Range(s) == {s[i] : i \in 1 .. Len(s)}

\* --------------------------------------------------- ExceptionGroupMeta
\* ExceptionGroupMeta.__new__: the fields of the class object `self` created
\* with bases = (base0,)
MetaNew(self, base0, specializations, inclusive) ==
    IF specializations # None
    THEN [bases |-> base0, base_case |-> base0,
          specializations |-> specializations, inclusive |-> inclusive]
    ELSE [bases |-> base0, base_case |-> self,
          specializations |-> None, inclusive |-> TRUE]

\* a defective variant: every required kind must be named by the subclass itself
\* (no covariance), and unmatched children are never tolerated
SubclasscheckSpecializationInvariant(c, s) ==
    IF c.specializations = {}
    THEN IF c.inclusive THEN Ret(TRUE)
         ELSE IF s.specializations = None THEN Raise("TypeError", 117)
         ELSE Ret(s.specializations = {})
    ELSE IF s.specializations = None THEN Raise("TypeError", 97)
    ELSE IF ~(c.specializations \subseteq s.specializations) THEN Ret(FALSE)
    ELSE IF c.inclusive THEN Ret(TRUE)
    ELSE Ret(s.specializations \subseteq c.specializations)

\* ExceptionGroupMeta._subclasscheck_specialization on the class records c (cls)
\* and s (subclass).  Iterating subclass.specializations raises TypeError when
\* it is None; the inner generator of `all(any(...))` is only built when
\* cls.specializations has an element.
SubclasscheckSpecialization(c, s) ==
    IF c.specializations # {} /\ s.specializations = None
    THEN Raise("TypeError", 97)
    ELSE LET matched_specializations ==
                 \A specialization \in c.specializations :
                     \E child \in s.specializations :
                         issubclass(child, specialization)
         IN  IF ~matched_specializations THEN Ret(FALSE)
             ELSE IF c.inclusive THEN Ret(TRUE)
             ELSE IF s.specializations = None THEN Raise("TypeError", 117)
             ELSE Ret(~ \E child \in s.specializations :
                          ~issubclass_any(child, c.specializations))

\* ExceptionGroupMeta.__subclasscheck__: issubclass(subclass, cls)
Subclasscheck(cls, subclass) ==
    IF cls = subclass THEN Ret(TRUE)
    ELSE IF subclass \notin DOMAIN classes THEN Ret(FALSE)
    ELSE IF classes[subclass].base_case # classes[cls].base_case THEN Ret(FALSE)
    ELSE IF classes[cls].specializations = None THEN Ret(TRUE)
    ELSE SubclasscheckSpecialization(classes[cls], classes[subclass])

\* a subscription argument: a bare object, or a tuple of objects
BareItems == {[tuple |-> FALSE, elems |-> <<x>>] : x \in ItemElems}
TupleItems ==
    {[tuple |-> TRUE, elems |-> e] :
        e \in UNION {[1 .. n -> ItemElems] : n \in 0 .. MaxItems}}
Items == BareItems \cup TupleItems

\* the specialized classes of a heap
Specialized(cs) == {id \in DOMAIN cs : cs[id].specializations # None}

\* the name of a new class built for unique_spec: the least serial number no
\* live class built for it has; NoId when MaxShapes classes are alive
NewId(cs, unique_spec) ==
    IF Cardinality(Specialized(cs)) >= MaxShapes THEN NoId
    ELSE Object(unique_spec,
                CHOOSE n \in 0 .. MaxShapes :
                    /\ Object(unique_spec, n) \notin DOMAIN cs
                    /\ \A m \in 0 .. n - 1 : Object(unique_spec, m) \in DOMAIN cs)

\* the registry: the heap and the cache together
Registry(cs, ch) == [classes |-> cs, cache |-> ch]

\* the class object _get_specialization builds on a cache miss
SpecializedClass(cls, unique_spec, id) ==
    MetaNew(id, cls, unique_spec \ {Ellipsis}, Ellipsis \in unique_spec)

\* _get_specialization, line 171: whether the cache has the key
CacheHit(reg, unique_spec) == unique_spec \in DOMAIN reg.cache

\* _get_specialization, lines 173-188: the heap with the new class `id`
Construct(reg, cls, unique_spec, id) ==
    Registry(reg.classes @@ (id :> SpecializedClass(cls, unique_spec, id)),
             reg.cache)

\* _get_specialization, line 189: the cache entry is set (or replaced)
Insert(reg, unique_spec, id) ==
    Registry(reg.classes, (unique_spec :> id) @@ reg.cache)

\* ExceptionGroupMeta._get_specialization(cls, item) run in one piece on the
\* registry reg: the outcome and the registry afterwards
GetSpecialization(reg, cls, elems) ==
    LET unique_spec == Range(elems)
        id == NewId(reg.classes, unique_spec)
    IN  IF CacheHit(reg, unique_spec)
        THEN [out |-> Ret(reg.cache[unique_spec]), reg |-> reg]
        ELSE IF id = NoId
        THEN [out |-> Raise("NoId", 182), reg |-> reg]
        ELSE [out |-> Ret(id),
              reg |-> Insert(Construct(reg, cls, unique_spec, id), unique_spec, id)]

\* __getitem__, line 138: cls is a specialization already
AlreadySpecialized(reg, cls) == reg.classes[cls].specializations # None

\* __getitem__, line 143: item is `...` itself
IsEllipsis(item) == ~item.tuple /\ item.elems[1] = Ellipsis

\* __getitem__, lines 147 and 154-157: the types offered are exceptions
ValidItem(item) ==
    IF item.tuple
    THEN \A child \in Range(item.elems) :
             child = Ellipsis \/ issubclass(child, "BaseException")
    ELSE issubclass(item.elems[1], "BaseException")

\* ExceptionGroupMeta.__getitem__: cls[item]
GetItem(reg, cls, item) ==
    IF AlreadySpecialized(reg, cls)
    THEN [out |-> Raise("TypeError", 139), reg |-> reg]
    ELSE IF IsEllipsis(item)
    THEN [out |-> Ret(cls), reg |-> reg]
    ELSE IF ~ValidItem(item)
    THEN [out |-> Raise("TypeError", IF item.tuple THEN 158 ELSE 148), reg |-> reg]
    ELSE GetSpecialization(reg, cls, item.elems)

\* whether the call allocates a class the bounded heap has no identity for
OutOfIds(r) == r.out.exc = "NoId"


\* ------------------------------------------------------ ExceptionGroup
\* An object passed in `exceptions` is modelled by its type: KeyError() is
\* "KeyError", and "str" is a string, which is no exception.
ValueKinds == {"KeyError", "RuntimeError", "str"}
\* type(child)
TypeOf(child) == child
\* isinstance(exc, Exception)
IsException(exc) == issubclass(TypeOf(exc), "Exception")

\* the `sources` arguments: one label per position
SourcesOfLen(n) == [i \in 1 .. n |-> "source"]

\* real (type.__mro__) subclassing between classes of the family
RECURSIVE RealSubclass(_, _, _)
RealSubclass(cs, a, b) ==
    \/ a = b
    \/ a \in DOMAIN cs /\ RealSubclass(cs, cs[a].bases, b)

\* ExceptionGroup.__new__(cls, message, exceptions, sources): the class of the
\* object it allocates, and the registry afterwards
GroupNew(reg, cls, exceptions) ==
    IF reg.classes[cls].specializations # None
    THEN IF exceptions = <<>>
         THEN [out |-> Raise("TypeError", 242), reg |-> reg]
         ELSE [out |-> Ret(cls), reg |-> reg]
    ELSE GetItem(reg, cls,
                 [tuple |-> TRUE,
                  elems |-> [i \in 1 .. Len(exceptions) |-> TypeOf(exceptions[i])]])

\* the object BaseException.__new__ returns, before __init__ ran
RawGroup(class) ==
    [class |-> class, initialised |-> FALSE, message |-> "", exceptions |-> <<>>,
     sources |-> <<>>, traceback |-> "None", context |-> "None",
     cause |-> "None", suppress_context |-> FALSE]

\* ExceptionGroup.__init__(self, message, exceptions, sources)
GroupInit(self, message, exceptions, sources) ==
    IF \E i \in 1 .. Len(exceptions) : ~IsException(exceptions[i])
    THEN Raise("TypeError", 256)
    ELSE IF Len(sources) # Len(exceptions) THEN Raise("ValueError", 262)
    ELSE Ret([self EXCEPT !.initialised = TRUE, !.message = message,
                          !.exceptions = exceptions, !.sources = sources])

\* cls(message, exceptions, sources): type.__call__ runs __new__ and then, when
\* the object is an instance of cls, __init__
GroupCall(reg, cls, message, exceptions, sources) ==
    LET n == GroupNew(reg, cls, exceptions)
    IN  IF n.out.raised THEN n
        ELSE IF ~RealSubclass(n.reg.classes, n.out.value, cls)
        THEN [out |-> Ret(RawGroup(n.out.value)), reg |-> n.reg]
        ELSE [out |-> GroupInit(RawGroup(n.out.value), message, exceptions, sources),
              reg |-> n.reg]

\* assigning __cause__ also sets __suppress_context__
SetCause(g, cause) == [g EXCEPT !.cause = cause, !.suppress_context = TRUE]

\* __copy__, after the new group is built: traceback, context, cause, and
\* last the flag
CopyChain(new_group, self) ==
    [SetCause([new_group EXCEPT !.traceback = self.traceback,
                                !.context = self.context],
              self.cause)
     EXCEPT !.suppress_context = self.suppress_context]

\* ExceptionGroup.__copy__(self)
GroupCopy(reg, self) ==
    IF ~self.initialised
    THEN [out |-> Raise("AttributeError", 272), reg |-> reg]
    ELSE LET c == GroupCall(reg, self.class, self.message, self.exceptions,
                            self.sources)
         IN  IF c.out.raised THEN c
             ELSE [out |-> Ret(CopyChain(c.out.value, self)), reg |-> c.reg]

\* ---------------------------------------------------------- the program
Threads == {1, 2}
NoLocal == [cls |-> NoId, unique_spec |-> {}, specialized_cls |-> NoId]

Roots == {ExceptionGroup, SubGroup}

\* class objects something still refers to
Referenced ==
    held \cup {group[i].class : i \in 1 .. Len(group)}
         \cup {local[t].specialized_cls : t \in Threads}
         \cup (IF last.op = "copy" /\ ~last.out.raised
               THEN {last.out.value.class} ELSE {})

\* classes the program can name: the roots and what it holds
Nameable == (Roots \cap DOMAIN classes) \cup held

\* the program is between two calls
Idle == last.op = "none" /\ group = <<>>

\* only the class ExceptionGroup is declared
Init ==
    /\ classes = (ExceptionGroup :> MetaNew(ExceptionGroup, PlainType, None, TRUE))
    /\ cache = <<>>
    /\ held = {}
    /\ group = <<>>
    /\ last = [op |-> "none"]
    /\ pc = [t \in Threads |-> "idle"]
    /\ local = [t \in Threads |-> NoLocal]

\* as Init, after `class SubGroup(ExceptionGroup): pass`
InitRoots ==
    /\ classes = (ExceptionGroup :> MetaNew(ExceptionGroup, PlainType, None, TRUE))
                 @@ (SubGroup :> MetaNew(SubGroup, ExceptionGroup, None, TRUE))
    /\ cache = <<>>
    /\ held = {}
    /\ group = <<>>
    /\ last = [op |-> "none"]
    /\ pc = [t \in Threads |-> "idle"]
    /\ local = [t \in Threads |-> NoLocal]

\* the program evaluates cls[item] and keeps the class it gets
Subscribe(cls, item) ==
    LET r == GetItem(Registry(classes, cache), cls, item)
    IN  /\ Idle
        /\ ~OutOfIds(r)
        /\ classes' = r.reg.classes
        /\ cache' = r.reg.cache
        /\ held' = IF r.out.raised THEN held ELSE held \cup {r.out.value}
        /\ last' = [op |-> "getitem", cls |-> cls, item |-> item, out |-> r.out]
        /\ UNCHANGED <<group, pc, local>>

\* the program drops its reference to a class a subscription returned
Release(id) ==
    /\ Idle
    /\ id \in held
    /\ held' = held \ {id}
    /\ UNCHANGED <<classes, cache, group, last, pc, local>>

\* the garbage collector reclaims an unreferenced specialized class; the
\* WeakValueDictionary drops the entry that held it.  (A collection during a
\* call of the single thread is the same as one right before or after it:
\* no call reads a class nothing refers to except through the cache.)
Collect(id) ==
    /\ Idle
    /\ id \in DOMAIN classes \ (Roots \cup Referenced)
    /\ classes' = [i \in DOMAIN classes \ {id} |-> classes[i]]
    /\ cache' = [k \in {x \in DOMAIN cache : cache[x] # id} |-> cache[k]]
    /\ UNCHANGED <<held, group, last, pc, local>>

\* the program evaluates issubclass(subclass, cls), as an except clause does
IsSubclass(cls, subclass) ==
    /\ Idle
    /\ last' = [op |-> "issubclass", cls |-> cls, subclass |-> subclass,
                out |-> Subclasscheck(cls, subclass)]
    /\ UNCHANGED <<classes, cache, held, group, pc, local>>

\* the program evaluates cls("message", exceptions, sources)
Create(cls, exceptions, sources) ==
    LET r == GroupCall(Registry(classes, cache), cls, "message", exceptions, sources)
    IN  /\ Idle
        /\ ~OutOfIds(r)
        /\ classes' = r.reg.classes
        /\ cache' = r.reg.cache
        /\ group' = IF r.out.raised THEN <<>> ELSE <<r.out.value>>
        /\ last' = [op |-> "create", cls |-> cls, exceptions |-> exceptions,
                    sources |-> sources, out |-> r.out]
        /\ UNCHANGED <<held, pc, local>>

\* the exception being handled when the group is raised
Handled == "ZeroDivisionError()"

\* `raise group from cause` inside `except ZeroDivisionError`
RaiseFrom(cause) ==
    /\ group # <<>>
    /\ last.op = "create"
    /\ group[1].traceback = "None"
    /\ group' = <<[SetCause(group[1], cause) EXCEPT !.context = Handled,
                                                    !.traceback = "traceback"]>>
    /\ UNCHANGED <<classes, cache, held, last, pc, local>>

\* group.__suppress_context__ = flag
SetSuppressContext(flag) ==
    /\ group # <<>>
    /\ last.op = "create"
    /\ group[1].suppress_context # flag
    /\ group' = <<[group[1] EXCEPT !.suppress_context = flag]>>
    /\ UNCHANGED <<classes, cache, held, last, pc, local>>

\* the program evaluates copy.copy(group)
Copy ==
    LET r == GroupCopy(Registry(classes, cache), group[1])
    IN  /\ group # <<>>
        /\ last.op = "create"
        /\ ~OutOfIds(r)
        /\ classes' = r.reg.classes
        /\ cache' = r.reg.cache
        /\ last' = [op |-> "copy", self |-> group[1], out |-> r.out]
        /\ UNCHANGED <<held, group, pc, local>>

\* the program is done with the outcome of its call, and with the group
Return ==
    /\ ~Idle
    /\ last' = [op |-> "none"]
    /\ group' = <<>>
    /\ UNCHANGED <<classes, cache, held, pc, local>>

ExceptionSeqs == UNION {[1 .. n -> ValueKinds] : n \in 0 .. MaxExceptions}
Causes == {"None", Handled}

\* the subscriptions of a program that goes on to construct groups: one type,
\* `...`, the empty tuple, and one type with `...`
GroupItems ==
    BareItems \cup {[tuple |-> TRUE, elems |-> <<>>]}
              \cup {[tuple |-> TRUE, elems |-> <<k, Ellipsis>>] : k \in ErrKinds}

\* ------------------------------------------------------------ threads
\* Two threads evaluate cls[item].  The interpreter may switch threads between
\* the lookup, the construction of the class and the insertion.

\* thread t starts cls[item] with an item that reaches _get_specialization
TCall(t, cls, item) ==
    /\ pc[t] = "idle"
    /\ ~AlreadySpecialized(Registry(classes, cache), cls)
    /\ ~IsEllipsis(item)
    /\ ValidItem(item)
    /\ pc' = [pc EXCEPT ![t] = "lookup"]
    /\ local' = [local EXCEPT ![t] = [cls |-> cls, unique_spec |-> Range(item.elems),
                                      specialized_cls |-> NoId]]
    /\ UNCHANGED <<classes, cache, held, group, last>>

\* line 171: specialized_cls = cls._specs_cache[unique_spec], or KeyError
TLookup(t) ==
    /\ pc[t] = "lookup"
    /\ IF CacheHit(Registry(classes, cache), local[t].unique_spec)
       THEN /\ local' = [local EXCEPT
                            ![t].specialized_cls = cache[local[t].unique_spec]]
            /\ pc' = [pc EXCEPT ![t] = "done"]
       ELSE /\ pc' = [pc EXCEPT ![t] = "construct"]
            /\ UNCHANGED local
    /\ UNCHANGED <<classes, cache, held, group, last>>

\* lines 173-188: the class is built
TConstruct(t) ==
    LET id == NewId(classes, local[t].unique_spec)
    IN  /\ pc[t] = "construct"
        /\ id # NoId
        /\ classes' = Construct(Registry(classes, cache), local[t].cls,
                                local[t].unique_spec, id).classes
        /\ local' = [local EXCEPT ![t].specialized_cls = id]
        /\ pc' = [pc EXCEPT ![t] = "insert"]
        /\ UNCHANGED <<cache, held, group, last>>

\* line 189: cls._specs_cache[unique_spec] = specialized_cls
TInsert(t) ==
    /\ pc[t] = "insert"
    /\ cache' = Insert(Registry(classes, cache), local[t].unique_spec,
                       local[t].specialized_cls).cache
    /\ pc' = [pc EXCEPT ![t] = "done"]
    /\ UNCHANGED <<classes, held, group, last, local>>

\* the thread is done with the class it received
TReturn(t) ==
    /\ pc[t] = "done"
    /\ pc' = [pc EXCEPT ![t] = "idle"]
    /\ local' = [local EXCEPT ![t] = NoLocal]
    /\ UNCHANGED <<classes, cache, held, group, last>>

NextThreads ==
    \/ \E t \in Threads, item \in Items : TCall(t, ExceptionGroup, item)
    \/ \E t \in Threads : TLookup(t)
    \/ \E t \in Threads : TConstruct(t)
    \/ \E t \in Threads : TInsert(t)
    \/ \E t \in Threads : TReturn(t)
    \/ \E id \in DOMAIN classes : Collect(id)

\* a program that specializes classes and matches them
Next ==
    \/ \E cls \in Nameable, item \in Items : Subscribe(cls, item)
    \/ \E id \in held : Release(id)
    \/ \E id \in DOMAIN classes : Collect(id)
    \/ \E cls \in Nameable, subclass \in Nameable \cup {PlainType} :
           IsSubclass(cls, subclass)
    \/ Return

\* a program that constructs groups through the declared classes only
NextConstruct ==
    \/ \E cls \in Roots \cap DOMAIN classes, exceptions \in ExceptionSeqs,
          n \in 0 .. MaxExceptions :
           Create(cls, exceptions, SourcesOfLen(n))
    \/ \E cause \in Causes : RaiseFrom(cause)
    \/ \E flag \in BOOLEAN : SetSuppressContext(flag)
    \/ Copy
    \/ Return
    \/ \E id \in DOMAIN classes : Collect(id)

\* a program that specializes classes, constructs, raises and copies groups
NextGroup ==
    \/ \E cls \in Nameable, item \in GroupItems : Subscribe(cls, item)
    \/ \E id \in held : Release(id)
    \/ \E id \in DOMAIN classes : Collect(id)
    \/ \E cls \in Nameable, exceptions \in ExceptionSeqs, n \in 0 .. MaxExceptions :
           Create(cls, exceptions, SourcesOfLen(n))
    \/ \E cause \in Causes : RaiseFrom(cause)
    \/ \E flag \in BOOLEAN : SetSuppressContext(flag)
    \/ Copy
    \/ Return

\* one thread, the class ExceptionGroup: specialization and matching
Spec == Init /\ [][Next]_vars

\* one thread, ExceptionGroup and a subclass of it: specialization and matching
SpecRoots == InitRoots /\ [][Next]_vars

\* one thread, the class ExceptionGroup: groups
SpecGroup == Init /\ [][NextGroup]_vars

\* one thread, ExceptionGroup and a subclass of it: groups built from the two
SpecRootsGroup == InitRoots /\ [][NextConstruct]_vars

\* two threads, the class ExceptionGroup: specialization
SpecThreads == Init /\ [][NextThreads]_vars

\* ------------------------------------------------------------ properties
\* A class seen as a shape (base, members, inclusive): the members of the
\* unspecialized class are the empty set.
Base(id) == classes[id].base_case
Members(id) == IF classes[id].specializations = None THEN {}
               ELSE classes[id].specializations
Inclusive(id) == classes[id].inclusive
IsSpecialized(id) == classes[id].specializations # None
SameShape(s, t) ==
    Base(s) = Base(t) /\ Members(s) = Members(t) /\ Inclusive(s) = Inclusive(t)

\* the last call was issubclass(V, F) on two classes of the family
Matched == last.op = "issubclass" /\ last.subclass \in DOMAIN classes

\* C1: for a specialized filter F with members and a specialized value V of the
\* same base, issubclass(V, F) is true exactly when every member of F has a
\* subtype among the members of V, and F is inclusive or every member of V is
\* a subtype of some member of F.
C1_MatchesSpecialized ==
    (/\ Matched
     /\ IsSpecialized(last.cls) /\ Members(last.cls) # {}
     /\ IsSpecialized(last.subclass)
     /\ Base(last.cls) = Base(last.subclass))
    => last.out =
         Ret(/\ \A r \in Members(last.cls) :
                    \E v \in Members(last.subclass) : issubclass(v, r)
             /\ \/ Inclusive(last.cls)
                \/ \A v \in Members(last.subclass) :
                       \E r \in Members(last.cls) : issubclass(v, r))

\* C1 witness: the value {KeyError, RuntimeError} was matched by the exact
\* filter {LookupError, RuntimeError}.
C1_Witness ==
    /\ Matched
    /\ IsSpecialized(last.cls) /\ IsSpecialized(last.subclass)
    /\ Members(last.cls) = {"LookupError", "RuntimeError"}
    /\ ~Inclusive(last.cls)
    /\ Members(last.subclass) = {"KeyError", "RuntimeError"}
    /\ last.out = Ret(TRUE)

\* C2: issubclass(V, F) never raises, for any two classes of the family: the
\* unspecialized class, exact and inclusive specializations, in either place.
C2_MatchesTotal == Matched => ~last.out.raised

\* C3: a filter without members (the unspecialized class, the class
\* specialized with the empty tuple, or the class specialized with `...` alone)
\* accepts every value of its base: issubclass(V, F) returns True.
C3_EmptyFilterAcceptsAll ==
    (/\ Matched
     /\ Members(last.cls) = {}
     /\ Base(last.cls) = Base(last.subclass))
    => last.out = Ret(TRUE)

\* The part of C3 that is independent of the calls that raise: a filter
\* without members never answers False.  The exact class built from the
\* empty tuple violates it.
EmptyExactFilterNeverRejects ==
    (/\ Matched
     /\ Members(last.cls) = {}
     /\ Base(last.cls) = Base(last.subclass))
    => last.out # Ret(FALSE)

\* What does hold: the unspecialized class, and the inclusive class without
\* members, accept every value of their base.
InclusiveEmptyFilterAcceptsAll ==
    (/\ Matched
     /\ Members(last.cls) = {}
     /\ Inclusive(last.cls)
     /\ Base(last.cls) = Base(last.subclass))
    => last.out = Ret(TRUE)

\* the last call was a subscription that returned a class
Subscribed == last.op = "getitem" /\ ~last.out.raised
\* the members and the marker a subscription asks for
AskedMembers(item) == Range(item.elems) \ {Ellipsis}
AskedInclusive(item) == Ellipsis \in Range(item.elems)

\* C4: a subscription returns the class a previous one returned for the same
\* members and the same marker, while that class is still referenced; and no
\* two distinct live classes have equal (base, members, inclusive).
C4_ShapeIdentity ==
    /\ Subscribed =>
         \A s \in held :
             (/\ Base(s) = last.cls
              /\ Members(s) = AskedMembers(last.item)
              /\ Inclusive(s) = AskedInclusive(last.item))
             => s = last.out.value
    /\ \A s, t \in DOMAIN classes : SameShape(s, t) => s = t

\* What does hold of one thread: specialized classes are unique up to
\* (base_case, specializations, inclusive), on one root and on two.
SpecializedShapesUnique ==
    \A s, t \in Specialized(classes) :
        (/\ classes[s].specializations = classes[t].specializations
         /\ classes[s].inclusive = classes[t].inclusive) => s = t

\* C5: a subscription of a root class returns a class of that root.
C5_CacheKeyedByBase == Subscribed => Base(last.out.value) = last.cls

\* the last call was a construction that returned a group
Created == last.op = "create" /\ ~last.out.raised
\* the types of the objects of a sequence
Types(exceptions) == {TypeOf(exceptions[i]) : i \in 1 .. Len(exceptions)}

\* C6: the class of a constructed group is the exact specialization by the
\* types of its exceptions, whichever class it was constructed through.
C6_KindIsDerivedExactShape ==
    Created =>
        /\ classes[last.out.value.class].specializations = Types(last.exceptions)
        /\ ~classes[last.out.value.class].inclusive

\* the arguments of the last construction
AllExceptions(exceptions) == \A i \in 1 .. Len(exceptions) : IsException(exceptions[i])

\* C7: a construction returns only when every element is an exception and the
\* lengths agree; an element that is no exception raises TypeError, also when
\* the lengths differ; otherwise differing lengths raise ValueError; and a
\* group that exists has as many sources as exceptions.
C7_CreateValidates ==
    /\ last.op = "create" =>
         /\ ~last.out.raised =>
                /\ AllExceptions(last.exceptions)
                /\ Len(last.sources) = Len(last.exceptions)
         /\ ~AllExceptions(last.exceptions) =>
                last.out.raised /\ last.out.exc = "TypeError"
         /\ (/\ AllExceptions(last.exceptions)
             /\ Len(last.sources) # Len(last.exceptions)) =>
                last.out.raised /\ last.out.exc = "ValueError"
    /\ \A i \in 1 .. Len(group) : Len(group[i].sources) = Len(group[i].exceptions)

\* the last call was a copy
Copied == last.op = "copy"

\* C8: the copy of a group with cause and context set is a group with the
\* same message, exceptions, sources, cause, context and flag, whether the
\* flag is true or false.
C8_CopyRoundTrip ==
    (/\ Copied
     /\ last.self.cause # "None"
     /\ last.self.context # "None")
    => /\ ~last.out.raised
       /\ last.out.value.message = last.self.message
       /\ last.out.value.exceptions = last.self.exceptions
       /\ last.out.value.sources = last.self.sources
       /\ last.out.value.cause = last.self.cause
       /\ last.out.value.context = last.self.context
       /\ last.out.value.suppress_context = last.self.suppress_context

\* What does hold: a copy that is returned equals the original in every
\* field, chaining included.
ReturnedCopyEqual == (Copied /\ ~last.out.raised) => last.out.value = last.self

\* C9: two threads that ask for the same specialization receive the same
\* class, and no two distinct live specializations have equal (base, members,
\* inclusive).  (The unspecialized class is left out: see C4.)
C9_AtomicGetOrCreate ==
    /\ \A t, u \in Threads :
           (/\ pc[t] = "done" /\ pc[u] = "done"
            /\ local[t].cls = local[u].cls
            /\ local[t].unique_spec = local[u].unique_spec)
           => local[t].specialized_cls = local[u].specialized_cls
    /\ \A s, t \in Specialized(classes) : SameShape(s, t) => s = t

\* C10: the copy of a constructed group, the empty one included, does not
\* raise and has the class of the original.
C10_CopyTotal ==
    (Copied /\ last.self.initialised)
    => /\ ~last.out.raised
       /\ last.out.value.class = last.self.class

=============================================================================
